---------------------------- MODULE Spec2Model ----------------------------
(***************************************************************************)
(* A model of oauthdoctor/oauth/helper.go: the error classifier            *)
(* (decodeError), the remediation switch (diagnose) with its interactive   *)
(* credential replacement, the account probe (getAccount), the token       *)
(* exchange of the installed-app flow (oauth2Client) and ReadCustomerID.   *)
(*                                                                         *)
(* Go strings are TLA+ strings; the functions of package strings that the  *)
(* code calls are computed character by character.                         *)
(***************************************************************************)
EXTENDS Integers, Sequences, FiniteSets, TLC

VARIABLES
    pc,       \* position of the running function
    errstr,   \* err.Error() of the error being classified or diagnosed
    code,     \* the value decodeError returned (NoCode before it ran)
    stdin,    \* os.Stdin: the chunks future read(2) calls will return, then EOF
    store,    \* the client library configuration file (diag.ConfigFile)
    writes,   \* the ReplaceConfig calls made so far, in order
    out,      \* what was printed with log.Print, in order
    http,     \* what the network will answer, and the requests sent so far
    ret,      \* the value the function under study returned
    reader,   \* what the bufio.Reader of ReadCustomerID holds, read and not yet returned
    token,    \* the refresh token the token exchange returned
    passes    \* the completed calls of diagnose, in order

vars == <<pc, errstr, code, stdin, store, writes, out, http, ret, reader, token, passes>>

-----------------------------------------------------------------------------
(* Bounds of the model. *)

\* An error text is the concatenation of at most MaxFrags fragments.
MaxFrags == 2
\* os.Stdin delivers at most MaxChunks chunks before end of file.
MaxChunks == 2
\* diagnose is called at most MaxPasses times in a row.
MaxPasses == 2

-----------------------------------------------------------------------------
(* Package strings. *)

\* strings.Contains(s, substr)
Contains(s, substr) ==
    \E i \in 1..(Len(s) - Len(substr) + 1) :
        SubSeq(s, i, i + Len(substr) - 1) = substr

\* strings.Index(s, c) for a one-character c, 1-based; 0 when c is absent
IndexByte(s, c) ==
    IF \E i \in 1..Len(s) : SubSeq(s, i, i) = c
    THEN CHOOSE i \in 1..Len(s) :
            /\ SubSeq(s, i, i) = c
            /\ \A j \in 1..(i - 1) : SubSeq(s, j, j) # c
    ELSE 0

RECURSIVE Remove(_, _)
\* strings.Replace(s, old, "", -1) for a one-character old
Remove(s, old) ==
    IF Len(s) = 0 THEN ""
    ELSE IF SubSeq(s, 1, 1) = old THEN Remove(SubSeq(s, 2, Len(s)), old)
    ELSE SubSeq(s, 1, 1) \o Remove(SubSeq(s, 2, Len(s)), old)

\* unicode.IsSpace on the characters the inputs are made of
IsSpace(c) == c \in {" ", "\t", "\n", "\r"}

RECURSIVE TrimLeft(_)
TrimLeft(s) ==
    IF Len(s) > 0 /\ IsSpace(SubSeq(s, 1, 1))
    THEN TrimLeft(SubSeq(s, 2, Len(s)))
    ELSE s

RECURSIVE TrimRight(_)
TrimRight(s) ==
    IF Len(s) > 0 /\ IsSpace(SubSeq(s, Len(s), Len(s)))
    THEN TrimRight(SubSeq(s, 1, Len(s) - 1))
    ELSE s

\* strings.TrimSpace(s)
TrimSpace(s) == TrimRight(TrimLeft(s))

-----------------------------------------------------------------------------
(* The diagnostic codes (the iota block of helper.go). *)

AccessNotPermittedForManagerAccount == 0
GoogleAdsAPIDisabled == 1
InvalidClientInfo == 2
InvalidRefreshToken == 3
InvalidCustomerID == 4
MissingDevToken == 5
Unauthenticated == 6
Unauthorized == 7
UnknownError == 8

Codes == AccessNotPermittedForManagerAccount..UnknownError

\* code before decodeError has run
NoCode == UnknownError + 1

-----------------------------------------------------------------------------
(* decodeError *)

\* decodeError with the "PERMISSION_DENIED" test moved before invalid_grant
decodeErrorReordered(s) ==
    IF Contains(s, "invalid_client") THEN InvalidClientInfo
    ELSE IF Contains(s, "unauthorized_client") THEN Unauthorized
    ELSE IF Contains(s, "\"PERMISSION_DENIED\"") THEN GoogleAdsAPIDisabled
    ELSE IF Contains(s, "invalid_grant") THEN InvalidRefreshToken
    ELSE IF Contains(s, "refresh token is not set") THEN InvalidRefreshToken
    ELSE IF Contains(s, "USER_PERMISSION_DENIED") THEN InvalidRefreshToken
    ELSE IF Contains(s, "UNAUTHENTICATED") THEN Unauthenticated
    ELSE IF Contains(s, "CANNOT_BE_EXECUTED_BY_MANAGER_ACCOUNT")
         THEN AccessNotPermittedForManagerAccount
    ELSE IF Contains(s, "DEVELOPER_TOKEN_PARAMETER_MISSING") THEN MissingDevToken
    ELSE IF Contains(s, "INVALID_CUSTOMER_ID") THEN InvalidCustomerID
    ELSE UnknownError

\* decodeError without the USER_PERMISSION_DENIED test
decodeErrorNoUserDenied(s) ==
    IF Contains(s, "invalid_client") THEN InvalidClientInfo
    ELSE IF Contains(s, "unauthorized_client") THEN Unauthorized
    ELSE IF Contains(s, "invalid_grant") THEN InvalidRefreshToken
    ELSE IF Contains(s, "refresh token is not set") THEN InvalidRefreshToken
    ELSE IF Contains(s, "\"PERMISSION_DENIED\"") THEN GoogleAdsAPIDisabled
    ELSE IF Contains(s, "UNAUTHENTICATED") THEN Unauthenticated
    ELSE IF Contains(s, "CANNOT_BE_EXECUTED_BY_MANAGER_ACCOUNT")
         THEN AccessNotPermittedForManagerAccount
    ELSE IF Contains(s, "DEVELOPER_TOKEN_PARAMETER_MISSING") THEN MissingDevToken
    ELSE IF Contains(s, "INVALID_CUSTOMER_ID") THEN InvalidCustomerID
    ELSE UnknownError

decodeError(s) ==
    IF Contains(s, "invalid_client") THEN InvalidClientInfo
    ELSE IF Contains(s, "unauthorized_client") THEN Unauthorized
    ELSE IF Contains(s, "invalid_grant") THEN InvalidRefreshToken
    ELSE IF Contains(s, "refresh token is not set") THEN InvalidRefreshToken
    ELSE IF Contains(s, "USER_PERMISSION_DENIED") THEN InvalidRefreshToken
    ELSE IF Contains(s, "\"PERMISSION_DENIED\"") THEN GoogleAdsAPIDisabled
    ELSE IF Contains(s, "UNAUTHENTICATED") THEN Unauthenticated
    ELSE IF Contains(s, "CANNOT_BE_EXECUTED_BY_MANAGER_ACCOUNT")
         THEN AccessNotPermittedForManagerAccount
    ELSE IF Contains(s, "DEVELOPER_TOKEN_PARAMETER_MISSING") THEN MissingDevToken
    ELSE IF Contains(s, "INVALID_CUSTOMER_ID") THEN InvalidCustomerID
    ELSE UnknownError

-----------------------------------------------------------------------------
(* Error texts: concatenations of fragments.  The fragments are the ten    *)
(* patterns, pieces of patterns that only match when joined, and filler.   *)

Fragments ==
    { "invalid_client", "unauthorized_client", "invalid_grant",
      "refresh token is not set", "USER_PERMISSION_DENIED",
      "\"PERMISSION_DENIED\"", "UNAUTHENTICATED",
      "CANNOT_BE_EXECUTED_BY_MANAGER_ACCOUNT",
      "DEVELOPER_TOKEN_PARAMETER_MISSING", "INVALID_CUSTOMER_ID",
      "PERMISSION_DENIED", "\"", "invalid_", "client", "grant", "USER_",
      "oauth2: cannot fetch token: " }

RECURSIVE Concat(_)
Concat(fs) == IF fs = <<>> THEN "" ELSE Head(fs) \o Concat(Tail(fs))

ErrTexts ==
    { Concat(fs) : fs \in UNION { [1..n -> Fragments] : n \in 0..MaxFrags } }

-----------------------------------------------------------------------------
(* State shared by the specifications. *)

Fields == {"ClientID", "ClientSecret", "DevToken", "RefreshToken", "LoginCustomerID"}

InitStore ==
    [ClientID |-> "old-id", ClientSecret |-> "old-secret", DevToken |-> "old-dev",
     RefreshToken |-> "old-refresh", LoginCustomerID |-> ""]

NoHTTP == [doErr |-> "", body |-> "", short |-> FALSE, gets |-> 0]

NoRet == [set |-> FALSE]

Idle ==
    /\ code = NoCode
    /\ stdin = <<>>
    /\ store = InitStore
    /\ writes = <<>>
    /\ out = <<>>
    /\ http = NoHTTP
    /\ ret = NoRet
    /\ reader = ""
    /\ token = ""
    /\ passes = <<>>

-----------------------------------------------------------------------------
(* The classifier alone: decodeError applied to every error text. *)

InitDecode ==
    /\ pc = "decodeError"
    /\ errstr \in ErrTexts
    /\ Idle

DecodeError ==
    /\ pc = "decodeError"
    /\ code' = decodeError(errstr)
    /\ pc' = "decoded"
    /\ UNCHANGED <<errstr, stdin, store, writes, out, http, ret, reader, token, passes>>

NextDecode == DecodeError

SpecDecode == InitDecode /\ [][NextDecode]_vars

-----------------------------------------------------------------------------
(* encoding/json.  A JSON value is a tagged record; an object keeps its    *)
(* members in order.  Marshal writes a value as text; Unmarshal is its     *)
(* inverse on the documents of the model and fails on every other text.    *)

JStr(s) == [t |-> "string", s |-> s]
JNum(n) == [t |-> "number", n |-> n]
JNull == [t |-> "null"]
JObj(m) == [t |-> "object", m |-> m]

RECURSIVE Marshal(_), MarshalMembers(_)
Marshal(v) ==
    CASE v.t = "string" -> "\"" \o v.s \o "\""
      [] v.t = "number" -> ToString(v.n)
      [] v.t = "null" -> "null"
      [] v.t = "object" -> "{" \o MarshalMembers(v.m) \o "}"
MarshalMembers(ms) ==
    IF ms = <<>> THEN ""
    ELSE "\"" \o ms[1][1] \o "\":" \o Marshal(ms[1][2])
         \o (IF Len(ms) > 1 THEN "," ELSE "") \o MarshalMembers(Tail(ms))

\* the error body of the Google Ads API: {"error":{"code":..,"message":..,"status":..}}
ErrorBody(n, msg, status) ==
    JObj(<< <<"error", JObj(<< <<"code", JNum(n)>>, <<"message", JStr(msg)>>,
                               <<"status", JStr(status)>> >>)>> >>)

Statuses ==
    { <<403, "The caller does not have permission", "PERMISSION_DENIED">>,
      <<403, "User doesn't have permission to access customer", "USER_PERMISSION_DENIED">>,
      <<401, "Request is missing required authentication credential", "UNAUTHENTICATED">>,
      <<400, "Request cannot be executed by manager account",
        "CANNOT_BE_EXECUTED_BY_MANAGER_ACCOUNT">>,
      <<400, "Developer token is missing", "DEVELOPER_TOKEN_PARAMETER_MISSING">>,
      <<400, "Invalid customer ID", "INVALID_CUSTOMER_ID">>,
      <<500, "Internal error encountered", "INTERNAL">> }

JsonDocs ==
    { ErrorBody(x[1], x[2], x[3]) : x \in Statuses } \cup
    { \* 'error' is an object without 'message'
      JObj(<< <<"error", JObj(<< <<"status", JStr("UNAUTHENTICATED")>> >>)>> >>),
      \* 'message' is not a string
      JObj(<< <<"error", JObj(<< <<"message", JNum(404)>>,
                                 <<"status", JStr("INVALID_CUSTOMER_ID")>> >>)>> >>),
      \* 'error' is not an object
      JObj(<< <<"error", JStr("invalid_client")>> >>),
      JObj(<< <<"error", JNum(503)>> >>),
      JObj(<< <<"error", JNull>>, <<"status", JStr("INVALID_CUSTOMER_ID")>> >>),
      \* no 'error' member
      JObj(<< <<"resourceName", JStr("customers/1234567890")>> >>),
      JObj(<< <<"status", JStr("DEVELOPER_TOKEN_PARAMETER_MISSING")>> >>),
      JObj(<<>>),
      \* not an object
      JNull,
      JStr("UNAUTHENTICATED") }

\* json.Unmarshal([]byte(text), &m) for m of type map[string]interface{}: err is
\* non-nil unless the text is a JSON object or null, and null leaves m nil
Unmarshal(text) ==
    IF \E d \in JsonDocs : Marshal(d) = text /\ d.t \in {"object", "null"}
    THEN [err |-> FALSE, m |-> CHOOSE d \in JsonDocs : Marshal(d) = text]
    ELSE [err |-> TRUE, m |-> JNull]

RECURSIVE Lookup(_, _)
\* the value the decoder left under key (a later member overwrites an earlier one)
Lookup(ms, key) ==
    IF ms = <<>> THEN JNull
    ELSE IF ms[Len(ms)][1] = key THEN ms[Len(ms)][2]
    ELSE Lookup(SubSeq(ms, 1, Len(ms) - 1), key)

\* m[key] on a map[string]interface{}: nil for a nil map, an absent key and a JSON null
MapIndex(m, key) == IF m.t = "object" THEN Lookup(m.m, key) ELSE JNull

-----------------------------------------------------------------------------
(* package bufio on os.Stdin *)

RECURSIVE ReadString(_, _)
\* reader.ReadString('\n') on a reader that holds buf, over the chunks src of
\* os.Stdin: the text up to and including the first newline; at end of file what
\* is left, the error dropped
ReadString(buf, src) ==
    LET i == IndexByte(buf, "\n") IN
    IF i > 0
    THEN [line |-> SubSeq(buf, 1, i), buf |-> SubSeq(buf, i + 1, Len(buf)), src |-> src]
    ELSE IF src = <<>> THEN [line |-> buf, buf |-> "", src |-> src]
    ELSE ReadString(buf \o Head(src), Tail(src))

-----------------------------------------------------------------------------
(* The credential store.  ReplaceConfig is a method of package diag; the   *)
(* interface is the specification's: replace(field, value) fails with an   *)
(* IOError on a write failure.                                             *)

ReplaceConfig(st, field, value, ok) ==
    [store |-> IF ok THEN [st EXCEPT ![field] = value] ELSE st,
     call |-> [field |-> field, value |-> value, ok |-> ok]]

-----------------------------------------------------------------------------
(* The remediation functions.  Each takes and returns the environment      *)
(* e = [stdin, store, writes, out]; oks are the outcomes of the store      *)
(* writes it will make.                                                    *)

MsgCloudGuide ==
    "Follow this guide to setup your OAuth2 client ID and client secret: https://developers.google.com/adwords/api/docs/guides/first-api-call#set_up_oauth2_authentication"
MsgDevTokenGuide ==
    "Please follow this guide to retrieve your developer token: https://developers.google.com/adwords/api/docs/guides/signup#step-2"
MsgDevTokenEnter ==
    "Pleae enter a new Developer Token here and it will replace the one in your client library configuration file"

replaceCloudCredentials(e, oks) ==
    LET r1 == ReadString("", e.stdin)          \* reader := bufio.NewReader(os.Stdin)
        clientID == Remove(r1.line, "\n")
        r2 == ReadString("", r1.src)           \* reader = bufio.NewReader(os.Stdin)
        clientSecret == Remove(r2.line, "\n")
        w1 == ReplaceConfig(e.store, "ClientID", clientID, oks[1])
        w2 == ReplaceConfig(w1.store, "ClientSecret", clientSecret, oks[2])
    IN  [stdin |-> r2.src,
         store |-> w2.store,
         writes |-> e.writes \o <<w1.call, w2.call>>,
         out |-> e.out \o <<MsgCloudGuide, "New Client ID >> ", "New Client Secret >> ">>]

replaceDevToken(e, oks) ==
    LET r == ReadString("", e.stdin)
        devToken == Remove(r.line, "\n")
        w == ReplaceConfig(e.store, "DevToken", devToken, oks[1])
    IN  [stdin |-> r.src,
         store |-> w.store,
         writes |-> Append(e.writes, w.call),
         out |-> e.out \o <<MsgDevTokenGuide, MsgDevTokenEnter, "New Developer Token >> ">>]

-----------------------------------------------------------------------------
(* diagnose *)

MsgManager ==
    "ERROR: Your credentials are not sufficient to access to a manager account.\nPlease login with a Google Ads account with manager access."
MsgEnableAPI == "Press <Enter> to continue after you enable Google Ads API"
MsgClientInfo == "ERROR: Your client ID and/or secret may be invalid."
MsgRefreshToken == "ERROR: Your refresh token may be invalid."
MsgDevToken == "ERROR: Your developer token is missing in the configuration file"
MsgUnauthenticated == "ERROR: The login email may not have access to the given account."
MsgCustomerID == "ERROR: You customer ID is invalid."
MsgUnknown ==
    "ERROR: Your credentials are invalid but we cannot determine the exact error. Please verify your developer token, client ID, client secret and refresh token."

Say(e, msg) == [e EXCEPT !.out = Append(@, msg)]

\* the switch of diagnose with the InvalidCustomerID case asking for a developer token
remediateCustomerIDAsks(c, e, oks) ==
    CASE c = AccessNotPermittedForManagerAccount -> Say(e, MsgManager)
      [] c = GoogleAdsAPIDisabled ->
            [Say(e, MsgEnableAPI) EXCEPT !.stdin = ReadString("", e.stdin).src]
      [] c = InvalidClientInfo -> replaceCloudCredentials(Say(e, MsgClientInfo), oks)
      [] c \in {InvalidRefreshToken, Unauthorized} -> Say(e, MsgRefreshToken)
      [] c = MissingDevToken -> replaceDevToken(Say(e, MsgDevToken), oks)
      [] c = Unauthenticated -> Say(e, MsgUnauthenticated)
      [] c = InvalidCustomerID -> replaceDevToken(Say(e, MsgCustomerID), oks)
      [] OTHER -> Say(e, MsgUnknown)

\* the switch of diagnose on the code c
remediate(c, e, oks) ==
    CASE c = AccessNotPermittedForManagerAccount -> Say(e, MsgManager)
      [] c = GoogleAdsAPIDisabled ->
            [Say(e, MsgEnableAPI) EXCEPT !.stdin = ReadString("", e.stdin).src]
      [] c = InvalidClientInfo -> replaceCloudCredentials(Say(e, MsgClientInfo), oks)
      [] c \in {InvalidRefreshToken, Unauthorized} -> Say(e, MsgRefreshToken)
      [] c = MissingDevToken -> replaceDevToken(Say(e, MsgDevToken), oks)
      [] c = Unauthenticated -> Say(e, MsgUnauthenticated)
      [] c = InvalidCustomerID -> Say(e, MsgCustomerID)
      [] OTHER -> Say(e, MsgUnknown)

\* the first statement of diagnose: print error.message of a JSON error text.
\* Each of the two type assertions panics when the value is of another type.
jsonMessage(text) ==
    LET u == Unmarshal(text)
        errObj == MapIndex(u.m, "error")
        errMsg == MapIndex(errObj, "message")
    IN  IF u.err THEN [panic |-> FALSE, out |-> <<>>]
        ELSE IF errObj.t # "object" THEN [panic |-> TRUE, out |-> <<>>]
        ELSE IF errMsg.t # "string" THEN [panic |-> TRUE, out |-> <<>>]
        ELSE [panic |-> FALSE, out |-> <<"JSON response error: " \o errMsg.s>>]

\* diagnose(err): what it leaves of the environment e, the code it switched on
\* and what the switch printed
diagnose(text, e, oks) ==
    LET pre == jsonMessage(text)
        c == decodeError(text)
        e1 == [e EXCEPT !.out = @ \o pre.out]
        e2 == remediate(c, [e1 EXCEPT !.out = <<>>], oks)
    IN  IF pre.panic
        THEN [panic |-> TRUE, code |-> NoCode, said |-> <<>>, env |-> e1]
        ELSE [panic |-> FALSE, code |-> c, said |-> e2.out,
              env |-> [e2 EXCEPT !.out = e1.out \o e2.out]]

-----------------------------------------------------------------------------
(* diagnose called on an error, then called again when the operator runs   *)
(* the session again.                                                      *)

\* error texts that are not JSON: what the token endpoint and the transport return
PlainTexts ==
    { "oauth2: cannot fetch token: 401 Unauthorized\nResponse: {\"error\": \"invalid_client\"}",
      "oauth2: cannot fetch token: 400 Bad Request\nResponse: {\"error\": \"unauthorized_client\"}",
      "oauth2: cannot fetch token: 400 Bad Request\nResponse: {\"error\": \"invalid_grant\"}",
      "oauth2: token expired and refresh token is not set",
      "Get https://googleads.googleapis.com/v1/customers/1234567890: dial tcp: i/o timeout",
      "" }

\* the texts diagnose is called on: the texts above and every JSON object
DiagTexts == PlainTexts \cup { Marshal(d) : d \in { x \in JsonDocs : x.t = "object" } }

\* what one read(2) on os.Stdin may return: one line, two lines at once, an
\* empty line, a last line without its newline
StdinChunks == { "id-1\n", "s3cret\n", "id-1\ns3cret\n", "\n", "tok" }

StdinStreams == UNION { [1..n -> StdinChunks] : n \in 0..MaxChunks }

InitDiagnose ==
    /\ pc = "diagnose"
    /\ errstr \in DiagTexts
    /\ stdin \in StdinStreams
    /\ code = NoCode
    /\ store = InitStore
    /\ writes = <<>>
    /\ out = <<>>
    /\ http = NoHTTP
    /\ ret = NoRet
    /\ reader = ""
    /\ token = ""
    /\ passes = <<>>

Env == [stdin |-> stdin, store |-> store, writes |-> <<>>, out |-> <<>>]

Diagnose ==
    /\ pc = "diagnose"
    /\ \E oks \in [1..2 -> BOOLEAN] :
      \E r \in {diagnose(errstr, Env, oks)} :
        /\ pc' = IF r.panic THEN "panic" ELSE "diagnosed"
        /\ code' = r.code
        /\ stdin' = r.env.stdin
        /\ store' = r.env.store
        /\ writes' = r.env.writes
        /\ out' = r.env.out
        /\ passes' = Append(passes,
              [errstr |-> errstr, stdin |-> stdin, before |-> store, after |-> r.env.store,
               panic |-> r.panic, code |-> r.code, said |-> r.said,
               writes |-> r.env.writes, out |-> r.env.out])
    /\ UNCHANGED <<errstr, http, ret, reader, token>>

\* the texts the same failure can come back as: the same text, or a text of the
\* transport or the token endpoint that decodeError gives the same code
Recurrences(text) ==
    {text} \cup { t \in PlainTexts : decodeError(t) = decodeError(text) }

\* the operator runs the session again and the failure recurs
Again ==
    /\ pc \in {"diagnosed", "panic"}
    /\ Len(passes) < MaxPasses
    /\ errstr' \in Recurrences(errstr)
    /\ pc' = "diagnose"
    /\ code' = NoCode
    /\ writes' = <<>>
    /\ out' = <<>>
    /\ UNCHANGED <<stdin, store, http, ret, reader, token, passes>>

NextDiagnose == Diagnose \/ Again

SpecDiagnose == InitDiagnose /\ [][NextDiagnose]_vars

-----------------------------------------------------------------------------
(* replaceRefreshToken, oauth2Client, getAccount *)

MsgReplaceRefresh ==
    "Would you like to replace your refresh token in the client library config file with the new one generated?"

\* replaceRefreshToken taking a lower-case y for a yes
replaceRefreshTokenAnyCase(e, refreshToken, oks) ==
    LET r == ReadString("", e.stdin)
        answer == Remove(r.line, "\n")
        asked == [e EXCEPT !.stdin = r.src,
                           !.out = @ \o <<MsgReplaceRefresh,
                                          "Enter Y for Yes [Anything else is No] >> ">>]
        w == ReplaceConfig(e.store, "RefreshToken", refreshToken, oks[1])
    IN  IF answer \in {"Y", "y"}
        THEN [asked EXCEPT !.store = w.store, !.writes = Append(@, w.call)]
        ELSE Say(asked, "Refresh token is NOT replaced")

replaceRefreshToken(e, refreshToken, oks) ==
    LET r == ReadString("", e.stdin)
        answer == Remove(r.line, "\n")
        asked == [e EXCEPT !.stdin = r.src,
                           !.out = @ \o <<MsgReplaceRefresh,
                                          "Enter Y for Yes [Anything else is No] >> ">>]
        w == ReplaceConfig(e.store, "RefreshToken", refreshToken, oks[1])
    IN  IF answer = "Y"
        THEN [asked EXCEPT !.store = w.store, !.writes = Append(@, w.call)]
        ELSE Say(asked, "Refresh token is NOT replaced")

\* oauth2Client(code): exch is what conf.Exchange returns, an error text or a token.
\* log.Fatal prints the error and ends the process with os.Exit(1).
oauth2Client(exch) ==
    IF exch.err # ""
    THEN [fatal |-> TRUE, out |-> <<exch.err>>, refreshToken |-> ""]
    ELSE [fatal |-> FALSE, out |-> <<>>, refreshToken |-> exch.refreshToken]

\* what buf.ReadFrom(resp.Body) leaves in buf: the body, or the part of it that
\* arrived before the read failed (the error of ReadFrom is dropped)
ReadFrom(h) == IF h.short THEN SubSeq(h.body, 1, Len(h.body) \div 2) ELSE h.body

\* getAccount looking for the word error in the body instead of decoding it
getAccountTextual(h) ==
    LET buf == ReadFrom(h)
    IN  IF h.doErr # "" THEN [ok |-> FALSE, body |-> "", err |-> h.doErr]
        ELSE IF Contains(buf, "error")
        THEN [ok |-> FALSE, body |-> "", err |-> buf]
        ELSE [ok |-> TRUE, body |-> buf, err |-> ""]

\* getAccount(client): h is what client.Do and the response body will be
getAccount(h) ==
    LET buf == ReadFrom(h)
        jsonBody == Unmarshal(buf).m      \* the error of Unmarshal is dropped
    IN  IF h.doErr # "" THEN [ok |-> FALSE, body |-> "", err |-> h.doErr]
        ELSE IF MapIndex(jsonBody, "error").t # "null"
        THEN [ok |-> FALSE, body |-> "", err |-> buf]
        ELSE [ok |-> TRUE, body |-> buf, err |-> ""]

-----------------------------------------------------------------------------
(* One pass of the installed-app flow: the token exchange, the account     *)
(* probe, then diagnose on a failure of the probe or the offer to keep the *)
(* new refresh token.                                                      *)

\* what conf.Exchange may return
Exchanges ==
    { [err |-> "", refreshToken |-> "1//new-refresh"],
      [err |-> "oauth2: cannot fetch token: 401 Unauthorized\nResponse: {\"error\": \"invalid_client\"}",
       refreshToken |-> ""],
      [err |-> "oauth2: cannot fetch token: 400 Bad Request\nResponse: {\"error\": \"invalid_grant\"}",
       refreshToken |-> ""],
      [err |-> "Post https://oauth2.googleapis.com/token: dial tcp: i/o timeout",
       refreshToken |-> ""] }

\* the errors client.Do may return
TransportErrs == PlainTexts \ {""}

\* the response bodies the account endpoint may send
Bodies ==
    { Marshal(d) : d \in JsonDocs } \cup {"", "<html>502 Bad Gateway: upstream error</html>"}

Responses ==
    { [doErr |-> x, body |-> "", short |-> FALSE] : x \in TransportErrs } \cup
    { [doErr |-> "", body |-> b, short |-> sh] : b \in Bodies, sh \in BOOLEAN }

\* what the operator may answer the offer with
AnswerChunks == { "Y\n", "y\n", "yes\n", "N\n", "\n", "Y", "Y \n" }

AnswerStreams == UNION { [1..n -> AnswerChunks] : n \in 0..MaxChunks }

\* the order of the steps of the installed-app flow: the step that follows
\* step at, which failed or not
simulateAppFlow(at, failed) ==
    CASE at = "oauth2Client" -> "getAccount"
      [] at = "getAccount" /\ failed -> "diagnose"
      [] at = "getAccount" /\ ~failed -> "replaceRefreshToken"

InitFlow ==
    /\ pc = "oauth2Client"
    /\ errstr = ""
    /\ stdin \in AnswerStreams
    /\ code = NoCode
    /\ store = InitStore
    /\ writes = <<>>
    /\ out = <<>>
    /\ http = NoHTTP
    /\ ret = NoRet
    /\ reader = ""
    /\ token = ""
    /\ passes = <<>>

Oauth2Client ==
    /\ pc = "oauth2Client"
    /\ \E exch \in Exchanges :
        \E r \in {oauth2Client(exch)} :
            /\ pc' = IF r.fatal THEN "exit" ELSE simulateAppFlow("oauth2Client", FALSE)
            /\ errstr' = exch.err
            /\ out' = out \o r.out
            /\ token' = r.refreshToken
    /\ UNCHANGED <<code, stdin, store, writes, http, ret, reader, passes>>

GetAccount ==
    /\ pc = "getAccount"
    /\ \E h \in Responses :
        \E r \in {getAccount(h)} :
            /\ http' = [doErr |-> h.doErr, body |-> h.body, short |-> h.short,
                        gets |-> http.gets + 1]
            /\ ret' = [set |-> TRUE, ok |-> r.ok, body |-> r.body, err |-> r.err]
            /\ errstr' = r.err
            /\ pc' = simulateAppFlow("getAccount", ~r.ok)
    /\ UNCHANGED <<code, stdin, store, writes, out, reader, token, passes>>

ReplaceRefreshToken ==
    /\ pc = "replaceRefreshToken"
    /\ \E oks \in [1..1 -> BOOLEAN] :
        \E r \in {replaceRefreshToken(Env, token, oks)} :
            /\ stdin' = r.stdin
            /\ store' = r.store
            /\ writes' = r.writes
            /\ out' = out \o r.out
            /\ ret' = [set |-> TRUE, stdin |-> stdin, before |-> store]
    /\ pc' = "done"
    /\ UNCHANGED <<errstr, code, http, reader, token, passes>>

NextFlow == Oauth2Client \/ GetAccount \/ Diagnose \/ ReplaceRefreshToken

SpecFlow == InitFlow /\ [][NextFlow]_vars

-----------------------------------------------------------------------------
(* ReadCustomerID: one turn of its loop per step. *)

\* the loop of ReadCustomerID prints its prompt at most MaxPrompts times
MaxPrompts == 6

\* one turn of the loop on a reader that holds buf over the chunks src
readCustomerIDTurn(buf, src) ==
    LET r == ReadString(buf, src)
        customerID == TrimSpace(Remove(r.line, "\n"))
    IN  [returns |-> customerID # "",
         value |-> Remove(customerID, "-"),
         buf |-> r.buf,
         src |-> r.src]

CustomerIDChunks ==
    { "123-456-7890\n", " 1234567890 \n", "\n", "  \t\n", "-\n", "- 12\n", "--",
      "\n987-6\n" }

CustomerIDStreams == UNION { [1..n -> CustomerIDChunks] : n \in 0..MaxChunks }

InitReadCustomerID ==
    /\ pc = "ReadCustomerID"
    /\ errstr = ""
    /\ stdin \in CustomerIDStreams
    /\ code = NoCode
    /\ store = InitStore
    /\ writes = <<>>
    /\ out = <<>>
    /\ http = NoHTTP
    /\ ret = NoRet
    /\ reader = ""
    /\ token = ""
    /\ passes = <<>>

ReadCustomerID ==
    /\ pc = "ReadCustomerID"
    /\ Len(out) < MaxPrompts
    /\ \E r \in {readCustomerIDTurn(reader, stdin)} :
        /\ out' = Append(out, "Please enter a Google Ads account ID:")
        /\ reader' = r.buf
        /\ stdin' = r.src
        /\ pc' = IF r.returns THEN "returned" ELSE "ReadCustomerID"
        /\ ret' = IF r.returns THEN [set |-> TRUE, value |-> r.value] ELSE ret
    /\ UNCHANGED <<errstr, code, store, writes, http, token, passes>>

NextReadCustomerID == ReadCustomerID

SpecReadCustomerID == InitReadCustomerID /\ [][NextReadCustomerID]_vars

-----------------------------------------------------------------------------
(* The mapping table of the classifier as the specification declares it    *)
(* (pattern, code), in the declared order.                                 *)

MappingTable ==
    << <<"invalid_client", InvalidClientInfo>>,
       <<"unauthorized_client", Unauthorized>>,
       <<"invalid_grant", InvalidRefreshToken>>,
       <<"refresh token is not set", InvalidRefreshToken>>,
       <<"USER_PERMISSION_DENIED", InvalidRefreshToken>>,
       <<"\"PERMISSION_DENIED\"", GoogleAdsAPIDisabled>>,
       <<"UNAUTHENTICATED", Unauthenticated>>,
       <<"CANNOT_BE_EXECUTED_BY_MANAGER_ACCOUNT", AccessNotPermittedForManagerAccount>>,
       <<"DEVELOPER_TOKEN_PARAMETER_MISSING", MissingDevToken>>,
       <<"INVALID_CUSTOMER_ID", InvalidCustomerID>> >>

\* the rows of the table whose pattern occurs in s
Matching(s) == { i \in DOMAIN MappingTable : Contains(s, MappingTable[i][1]) }

\* the first row of a non-empty set of rows
First(rows) == CHOOSE i \in rows : \A j \in rows : i <= j

-----------------------------------------------------------------------------
(* C1: for every error text decodeError returns one of the nine codes: the *)
(* code of the first row of the mapping table whose pattern occurs in the  *)
(* text, and UnknownError when no pattern occurs; a text with both         *)
(* invalid_grant and PERMISSION_DENIED never yields GoogleAdsAPIDisabled,  *)
(* and yields InvalidRefreshToken when no pattern declared before          *)
(* invalid_grant occurs in it too.                                         *)
C1_FirstPatternWins ==
    pc = "decoded" =>
        /\ code \in Codes
        /\ code = IF Matching(errstr) = {} THEN UnknownError
                  ELSE MappingTable[First(Matching(errstr))][2]
        /\ (Contains(errstr, "invalid_grant") /\ Contains(errstr, "PERMISSION_DENIED"))
              => /\ code # GoogleAdsAPIDisabled
                 /\ (~Contains(errstr, "invalid_client")
                        /\ ~Contains(errstr, "unauthorized_client"))
                       => code = InvalidRefreshToken

\* a classified text holding both invalid_grant and the quoted status
C1_Witness ==
    /\ pc = "decoded"
    /\ Contains(errstr, "invalid_grant")
    /\ Contains(errstr, "\"PERMISSION_DENIED\"")
    /\ code = InvalidRefreshToken

(* C6 as stated: for every error text at most one of the ten patterns of   *)
(* the mapping table matches it.                                           *)
C6_NonOverlapping ==
    pc = "decoded" => Cardinality(Matching(errstr)) <= 1

(* C6 as amended: the patterns can overlap, and when a text matches        *)
(* patterns paired with different codes the code returned is the one of    *)
(* the earliest declared of them and not the one of any later row.         *)
C6_OverlapResolvedByOrder ==
    pc = "decoded" =>
        \A i, j \in Matching(errstr) :
            (/\ i < j
             /\ \A k \in Matching(errstr) : i <= k
             /\ MappingTable[i][2] # MappingTable[j][2])
            => (code = MappingTable[i][2] /\ code # MappingTable[j][2])

\* a classified text that two patterns with different codes match
C6_Witness ==
    /\ pc = "decoded"
    /\ \E i, j \in Matching(errstr) : MappingTable[i][2] # MappingTable[j][2]

-----------------------------------------------------------------------------
(* What the operator typed, as one reader over the whole of os.Stdin would *)
(* return it.                                                              *)

\* the first answer line of the stream, its newline removed
Answer1(stream) == Remove(ReadString(Concat(stream), <<>>).line, "\n")
\* what follows the first answer line
AfterAnswer1(stream) == ReadString(Concat(stream), <<>>).buf
\* the second answer line of the stream, its newline removed
Answer2(stream) == Remove(ReadString(AfterAnswer1(stream), <<>>).line, "\n")
\* the operator supplied two answer lines
TwoAnswers(stream) ==
    /\ IndexByte(Concat(stream), "\n") > 0
    /\ AfterAnswer1(stream) # ""

AllOk(ws) == \A k \in DOMAIN ws : ws[k].ok
FieldsWritten(ws) == [k \in DOMAIN ws |-> ws[k].field]

(* C3: when diagnose handles an error classified InvalidClientInfo and the *)
(* operator supplies two answer lines (one after the other or together),   *)
(* the store's ClientID ends equal to the first line and ClientSecret to   *)
(* the second, newline stripped, and no other store field is written.      *)
C3_BothCredentialsReplaced ==
    \A i \in DOMAIN passes :
        LET p == passes[i] IN
        (p.code = InvalidClientInfo /\ TwoAnswers(p.stdin) /\ AllOk(p.writes)) =>
            /\ p.after.ClientID = Answer1(p.stdin)
            /\ p.after.ClientSecret = Answer2(p.stdin)
            /\ \A f \in Fields \ {"ClientID", "ClientSecret"} : p.after[f] = p.before[f]

(* C4: diagnose writes to the store only for InvalidClientInfo (ClientID   *)
(* and ClientSecret, once each) and MissingDevToken (DevToken, once); for  *)
(* every other code the store is unchanged, and two runs of diagnose with  *)
(* the same such code report the same message with no store write.         *)
C4_OnlyTwoCodesWrite ==
    \A i \in DOMAIN passes :
        LET p == passes[i] IN
        /\ p.code = InvalidClientInfo =>
              FieldsWritten(p.writes) = <<"ClientID", "ClientSecret">>
        /\ p.code = MissingDevToken => FieldsWritten(p.writes) = <<"DevToken">>
        /\ p.code \notin {InvalidClientInfo, MissingDevToken} =>
              (p.writes = <<>> /\ p.after = p.before)
        /\ \A f \in Fields :
              p.after[f] # p.before[f] => \E k \in DOMAIN p.writes : p.writes[k].field = f
        /\ \A j \in DOMAIN passes :
              (/\ p.code \in Codes \ {InvalidClientInfo, MissingDevToken}
               /\ passes[j].code = p.code)
              => (passes[j].said = p.said /\ p.said # <<>>)

\* two runs of diagnose on different texts of one code that writes nothing
C4_Witness ==
    /\ Len(passes) = 2
    /\ passes[1].code = UnknownError
    /\ passes[2].code = UnknownError
    /\ passes[1].errstr # passes[2].errstr
    /\ passes[2].stdin # <<>>

(* C8: when a store write fails during remediation the pass ends at once:  *)
(* the failed write is the last one the pass attempts (ClientSecret is not *)
(* written after a failed ClientID write) and it is not retried.           *)
C8_FailedWriteEndsPass ==
    \A i \in DOMAIN passes :
        \A k \in DOMAIN passes[i].writes :
            ~passes[i].writes[k].ok => k = Len(passes[i].writes)

(* C9: for every error value diagnose completes one remediation action,    *)
(* chosen by decodeError of the error text, and prints at least one        *)
(* message: the JSON pre-step never prevents the remediation from running. *)
C9_RemediationAlwaysRuns ==
    \A i \in DOMAIN passes :
        /\ ~passes[i].panic
        /\ passes[i].code = decodeError(passes[i].errstr)
        /\ passes[i].said # <<>>

-----------------------------------------------------------------------------
(* Claims about the installed-app flow. *)

\* the text starts with the answer line Y
AnswerIsY(text) ==
    \/ text = "Y"
    \/ Len(text) >= 2 /\ SubSeq(text, 1, 2) = "Y\n"

(* C2: after a successful pass replaceRefreshToken writes the new refresh  *)
(* token to the store if and only if the operator's answer line, newline   *)
(* removed, is exactly "Y"; for every other answer no store field is       *)
(* written and the stored refresh token is unchanged.                      *)
C2_WritesIffAnswerIsY ==
    pc = "done" =>
        IF AnswerIsY(Concat(ret.stdin))
        THEN /\ Len(writes) = 1
             /\ writes[1].field = "RefreshToken"
             /\ writes[1].value = token
             /\ writes[1].ok => store = [ret.before EXCEPT !.RefreshToken = token]
        ELSE /\ writes = <<>>
             /\ store = ret.before

\* the offer answered Y and the new refresh token stored
C2_Witness ==
    /\ pc = "done"
    /\ AnswerIsY(Concat(ret.stdin))
    /\ token # InitStore.RefreshToken
    /\ store.RefreshToken = token

(* C5: in the installed-app flow a failed token exchange is handed to the  *)
(* classifier and then to the remediation before the pass ends: the pass   *)
(* never ends after a failed exchange with nothing classified.             *)
C5_ExchangeFailureDiagnosed ==
    pc = "exit" => (code \in Codes /\ passes # <<>>)

\* the text is one of the JSON objects and has a member named error
HasErrorMember(text) ==
    \E d \in JsonDocs :
        /\ d.t = "object"
        /\ Marshal(d) = text
        /\ \E k \in DOMAIN d.m : d.m[k][1] = "error"

\* the text is one of the JSON objects and has a member named error that is not null
HasNonNullError(text) ==
    \E d \in JsonDocs :
        /\ d.t = "object"
        /\ Marshal(d) = text
        /\ \E k \in DOMAIN d.m : d.m[k][1] = "error" /\ d.m[k][2].t # "null"

\* getAccount has just returned
GetAccountReturned == pc \in {"diagnose", "replaceRefreshToken"}

-----------------------------------------------------------------------------
(* C10: any value ReadCustomerID returns is a non-empty customer ID with   *)
(* surrounding whitespace trimmed and every '-' removed.                   *)
C10_ReturnsCleanNonEmptyID ==
    pc = "returned" =>
        /\ ret.value # ""
        /\ TrimSpace(ret.value) = ret.value
        /\ ~Contains(ret.value, "-")

=============================================================================
